---- MODULE Spec2Model ----
(***************************************************************************)
(* api2go: Unmarshal of a decoded JSONAPI document into a caller-owned     *)
(* slice of model structs (unmarshal.go).                                  *)
(*                                                                         *)
(* The destination struct of the model is                                  *)
(*     type Article struct { ID; Title string; AuthorID; TagsIDs [] }      *)
(* whose identifier and foreign-key fields are declared either string or   *)
(* int (idKind).  Go strings are sequences of one-character strings, so    *)
(* that parsing and formatting of identifiers are computed, not assumed.   *)
(***************************************************************************)
EXTENDS Integers, Sequences, FiniteSets

VARIABLES
    idKind,     \* declared type of ID, AuthorID and the elements of TagsIDs
    values,     \* shape of the `values` argument of Unmarshal
    ctx,        \* the decoded document (unmarshalContext)
    sliceVal,   \* the caller's slice variable: backing array and length
    val,        \* the working slice of unmarshalInto (Unmarshal's `val`)
    isNew,      \* unmarshalInto's isNew of the last record processed
    obj,        \* index of the element the last record was merged into, 0 if none
    i,          \* position of the range loop over the models
    err,        \* error returned by the last call
    pc,         \* "ready", "loop", "done" or "panic"
    calls,      \* number of calls of Unmarshal made
    before,     \* the caller's destination when the current call began
    prevErr     \* error returned by the call before the current one

vars == <<idKind, values, ctx, sliceVal, val, isNew, obj, i, err, pc, calls, before, prevErr>>

\* ---------------------------------------------------------------- bounds
MaxDest == 2
MaxRecs == 2
MaxCalls == 2

\* ---------------------------------------------------------------- strings
Digits == <<"0", "1", "2", "3", "4", "5", "6", "7", "8", "9">>

DigitChars == {Digits[k] : k \in 1..Len(Digits)}

DigitVal(c) == (CHOOSE k \in 1..Len(Digits) : Digits[k] = c) - 1

IsDigits(s) == s /= <<>> /\ \A k \in 1..Len(s) : s[k] \in DigitChars

RECURSIVE DecimalValue(_)
DecimalValue(s) ==
    IF s = <<>> THEN 0
    ELSE 10 * DecimalValue(SubSeq(s, 1, Len(s) - 1)) + DigitVal(s[Len(s)])

\* strconv.ParseInt(id, 10, 64): an optional sign, then decimal digits.
ParseInt(s) ==
    IF s /= <<>> /\ s[1] \in {"+", "-"}
    THEN IF IsDigits(Tail(s))
         THEN [ok |-> TRUE,
               n |-> IF s[1] = "-" THEN 0 - DecimalValue(Tail(s)) ELSE DecimalValue(Tail(s))]
         ELSE [ok |-> FALSE, n |-> 0]
    ELSE IF IsDigits(s) THEN [ok |-> TRUE, n |-> DecimalValue(s)]
         ELSE [ok |-> FALSE, n |-> 0]

RECURSIVE FormatNat(_)
FormatNat(n) ==
    IF n < 10 THEN <<Digits[n + 1]>>
    ELSE FormatNat(n \div 10) \o <<Digits[(n % 10) + 1]>>

\* strconv.FormatInt(n, 10): the canonical decimal rendering.
FormatInt(n) == IF n < 0 THEN <<"-">> \o FormatNat(0 - n) ELSE FormatNat(n)

\* ---------------------------------------------------------------- name translator
StructName == "Article"

Jsonify(name) == IF name = "Article" THEN "article" ELSE name

Pluralize(noun) == IF noun = "article" THEN "articles" ELSE noun

Dejsonify(key) ==
    CASE key = "title"  -> "Title"
      [] key = "bogus"  -> "Bogus"
      [] key = "tags"   -> "Tags"
      [] key = "author" -> "Author"
      [] key = "nope"   -> "Nope"
      [] OTHER          -> key

\* ---------------------------------------------------------------- the struct
FieldNames == {"ID", "Title", "AuthorID", "TagsIDs"}

FieldType(name, kind) ==
    CASE name = "Title"  -> "string"
      [] name = "TagsIDs" -> "slice"
      [] OTHER           -> kind

ZeroID(kind) == IF kind = "string" THEN <<>> ELSE 0

\* reflect.New(structType).Elem()
ZeroStruct(kind) ==
    [ID |-> ZeroID(kind), Title |-> <<>>, AuthorID |-> ZeroID(kind), TagsIDs |-> <<>>]

\* ---------------------------------------------------------------- decoded JSON values
Scalar(k, s) == [k |-> k, s |-> s]

LinkVal(k, s, a) == [k |-> k, s |-> s, a |-> a]

NoLink == LinkVal("absent", <<>>, <<>>)

Links(tags, author, nope) == [tags |-> tags, author |-> author, nope |-> nope]

NoLinks == Links(NoLink, NoLink, NoLink)

AttrVal(k, s, o) == [k |-> k, s |-> s, o |-> o]

Absent == AttrVal("absent", <<>>, NoLinks)

Null == AttrVal("null", <<>>, NoLinks)

Num == AttrVal("number", <<>>, NoLinks)

Str(s) == AttrVal("string", s, NoLinks)

Obj(o) == AttrVal("object", <<>>, o)

Array(a) == LinkVal("array", <<>>, a)

One(s) == LinkVal("string", s, <<>>)

Attributes(id, title, bogus, links) ==
    [id |-> id, title |-> title, bogus |-> bogus, links |-> links]

Model(k, m) == [k |-> k, m |-> m]

\* ---------------------------------------------------------------- identifiers
\* idFromObject(obj): the identifier field rendered as a string.
IdFromObject(e, kind) == IF kind = "string" THEN e.ID ELSE FormatInt(e.ID)

\* setIDValue(field, idInterface): coerce the string into the field's type.
SetIDValue(fieldType, v) ==
    IF v.k /= "string"
    THEN [ok |-> FALSE, v |-> 0, msg |-> "expected id to be of type string"]
    ELSE CASE fieldType = "string" -> [ok |-> TRUE, v |-> v.s, msg |-> "nil"]
           [] fieldType = "int" ->
                IF ParseInt(v.s).ok
                THEN [ok |-> TRUE, v |-> ParseInt(v.s).n, msg |-> "nil"]
                ELSE [ok |-> FALSE, v |-> 0, msg |-> "invalid syntax"]
           [] OTHER -> [ok |-> FALSE, v |-> 0, msg |-> "expected ID to be of type int or string in struct"]

Ok(e) == [st |-> "ok", e |-> e, msg |-> "nil"]

Err(e, msg) == [st |-> "err", e |-> e, msg |-> msg]

Panic(e) == [st |-> "panic", e |-> e, msg |-> "panic"]

\* setObjectID(val, id)
SetObjectID(e, kind, v) ==
    LET r == SetIDValue(FieldType("ID", kind), v)
    IN  IF r.ok THEN Ok([e EXCEPT !.ID = r.v]) ELSE Err(e, r.msg)

\* FindObject with the scan starting behind the first element.
FindObjectSkipFirst(elems, id, kind) ==
    LET hits == {k \in 2..Len(elems) : IdFromObject(elems[k], kind) = id}
    IN  IF hits = {} THEN 0 ELSE CHOOSE k \in hits : \A h \in hits : k <= h

\* FindObject with `val = obj` ahead of the comparison: without a match the
\* last element scanned is taken.
FindObjectStale(elems, id, kind) ==
    LET hits == {k \in 1..Len(elems) : IdFromObject(elems[k], kind) = id}
    IN  IF hits = {} THEN Len(elems) ELSE CHOOSE k \in hits : \A h \in hits : k <= h

\* unmarshal.go:70-81, the scan for an element whose identifier equals id:
\* the index of the first match, 0 when there is none.
FindObject(elems, id, kind) ==
    LET hits == {k \in 1..Len(elems) : IdFromObject(elems[k], kind) = id}
    IN  IF hits = {} THEN 0 ELSE CHOOSE k \in hits : \A h \in hits : k <= h

\* ---------------------------------------------------------------- links
\* unmarshal.go:139-144: a fresh slice of len(links), filled in order up to the
\* first element that cannot be coerced.
MakeIDs(links, kind) ==
    LET bad   == {k \in 1..Len(links) : ~SetIDValue(kind, links[k]).ok}
        first == IF bad = {} THEN Len(links) + 1 ELSE CHOOSE k \in bad : \A h \in bad : k <= h
    IN  [ids |-> [k \in 1..Len(links) |->
                    IF k < first THEN SetIDValue(kind, links[k]).v ELSE ZeroID(kind)],
         ok  |-> bad = {},
         msg |-> IF bad = {} THEN "nil" ELSE SetIDValue(kind, links[first]).msg]

\* SetLink with the to-many identifiers appended to the field, not replacing it.
SetLinkAppend(e, kind, linkName, linkObj) ==
    CASE linkObj.k = "array" ->
            LET structFieldName == Dejsonify(linkName) \o "IDs"
            IN  IF structFieldName \notin FieldNames \/ FieldType(structFieldName, kind) /= "slice"
                THEN Err(e, "expected struct to have a " \o structFieldName \o " slice")
                ELSE LET r == MakeIDs(linkObj.a, kind)
                     IN  IF r.ok THEN Ok([e EXCEPT ![structFieldName] = @ \o r.ids])
                         ELSE Err([e EXCEPT ![structFieldName] = @ \o r.ids], r.msg)
      [] linkObj.k = "string" ->
            LET structFieldName == Dejsonify(linkName) \o "ID"
                fieldType == IF structFieldName \in FieldNames
                             THEN FieldType(structFieldName, kind) ELSE "invalid"
                r == SetIDValue(fieldType, linkObj)
            IN  IF r.ok THEN Ok([e EXCEPT ![structFieldName] = r.v]) ELSE Err(e, r.msg)
      [] OTHER -> Err(e, "expected string or array in links object")

\* unmarshal.go:129-157, one entry of the links map.
SetLink(e, kind, linkName, linkObj) ==
    CASE linkObj.k = "array" ->
            LET structFieldName == Dejsonify(linkName) \o "IDs"
            IN  IF structFieldName \notin FieldNames \/ FieldType(structFieldName, kind) /= "slice"
                THEN Err(e, "expected struct to have a " \o structFieldName \o " slice")
                ELSE LET r == MakeIDs(linkObj.a, kind)
                     IN  IF r.ok THEN Ok([e EXCEPT ![structFieldName] = r.ids])
                         ELSE Err([e EXCEPT ![structFieldName] = r.ids], r.msg)
      [] linkObj.k = "string" ->
            LET structFieldName == Dejsonify(linkName) \o "ID"
                fieldType == IF structFieldName \in FieldNames
                             THEN FieldType(structFieldName, kind) ELSE "invalid"
                r == SetIDValue(fieldType, linkObj)
            IN  IF r.ok THEN Ok([e EXCEPT ![structFieldName] = r.v]) ELSE Err(e, r.msg)
      [] OTHER -> Err(e, "expected string or array in links object")

LinkNames(linksMap) == {n \in DOMAIN linksMap : linksMap[n].k /= "absent"}

RECURSIVE SetLinks(_, _, _, _)
SetLinks(e, kind, linksMap, names) ==
    IF names = {} THEN e
    ELSE LET n == CHOOSE x \in names : TRUE
         IN  SetLinks(SetLink(e, kind, n, linksMap[n]).e, kind, linksMap, names \ {n})

\* unmarshalLinks: the map is ranged over in an unspecified order, so a failing
\* entry may be reached after any subset of the entries that succeed.
UnmarshalLinks(e, kind, linksMap) ==
    LET names == LinkNames(linksMap)
        bad   == {n \in names : SetLink(e, kind, n, linksMap[n]).st /= "ok"}
    IN  IF bad = {} THEN {Ok(SetLinks(e, kind, linksMap, names))}
        ELSE {SetLink(SetLinks(e, kind, linksMap, done), kind, f, linksMap[f]) :
                f \in bad, done \in SUBSET (names \ bad)}

\* ---------------------------------------------------------------- attributes
\* SetField with a key that names no field dropped.
SetFieldDropUnknown(e, kind, k, v) ==
    LET fieldName == Dejsonify(k)
    IN  IF fieldName \notin FieldNames
        THEN Ok(e)
        ELSE IF v.k = "string" /\ FieldType(fieldName, kind) = "string"
             THEN Ok([e EXCEPT ![fieldName] = v.s])
             ELSE Panic(e)

\* unmarshal.go:110-115, a plain attribute: field.Set(reflect.ValueOf(v))
\* panics unless the decoded value is assignable to the field.
SetField(e, kind, k, v) ==
    LET fieldName == Dejsonify(k)
    IN  IF fieldName \notin FieldNames
        THEN Err(e, "expected struct " \o StructName \o " to have field " \o fieldName)
        ELSE IF v.k = "string" /\ FieldType(fieldName, kind) = "string"
             THEN Ok([e EXCEPT ![fieldName] = v.s])
             ELSE Panic(e)

\* unmarshal.go:89-116, the switch on one key of the record object.
SetAttribute(e, kind, k, v) ==
    CASE k = "links" -> IF v.k /= "object" THEN {Err(e, "expected links to be an object")}
                        ELSE UnmarshalLinks(e, kind, v.o)
      [] k = "id"    -> IF v.k /= "string" THEN {Err(e, "expected id to be of type string")}
                        ELSE {SetObjectID(e, kind, v)}
      [] OTHER       -> {SetField(e, kind, k, v)}

AttributeKeys(attributes) == {k \in DOMAIN attributes : attributes[k].k /= "absent"}

Succeeds(e, kind, attributes, k) ==
    \A r \in SetAttribute(e, kind, k, attributes[k]) : r.st = "ok"

RECURSIVE SetAttributes(_, _, _, _)
SetAttributes(e, kind, attributes, keys) ==
    IF keys = {} THEN e
    ELSE LET k == CHOOSE x \in keys : TRUE
             r == CHOOSE x \in SetAttribute(e, kind, k, attributes[k]) : TRUE
         IN  SetAttributes(r.e, kind, attributes, keys \ {k})

\* unmarshal.go:88-117: the range over the attributes, in an unspecified order.
\* Every key succeeds, or the first key that fails is reached after any subset
\* of the keys that succeed.
RangeAttributes(e, kind, attributes) ==
    LET keys == AttributeKeys(attributes)
        bad  == {k \in keys : ~Succeeds(e, kind, attributes, k)}
    IN  IF bad = {} THEN {Ok(SetAttributes(e, kind, attributes, keys))}
        ELSE UNION {SetAttribute(SetAttributes(e, kind, attributes, done), kind, f, attributes[f]) :
                      f \in bad, done \in SUBSET (keys \ bad)}

\* ---------------------------------------------------------------- slices
\* A Go slice is a backing array (its length is the capacity) and a length.
Destination == SubSeq(sliceVal.array, 1, sliceVal.len)

\* The working slice shares the caller's backing array until reflect.Append
\* has to grow it.
WorkArray == IF val.shared THEN sliceVal.array ELSE val.array

Working == SubSeq(WorkArray, 1, val.len)

Max(a, b) == IF a >= b THEN a ELSE b

\* The capacity a full slice of capacity cap grows to: doubled.
GrowCap(cap) == Max(cap + 1, 2 * cap)

\* ReflectAppend with a grown array the old elements are not copied into.
ReflectAppendNoCopy(a, n, x, kind) ==
    IF n < Len(a)
    THEN [grown |-> FALSE, array |-> [a EXCEPT ![n + 1] = x], len |-> n + 1]
    ELSE [grown |-> TRUE,
          array |-> [k \in 1..GrowCap(Len(a)) |-> IF k = n + 1 THEN x ELSE ZeroStruct(kind)],
          len   |-> n + 1]

\* reflect.Append(s, x) on a slice of array a and length n: x is written in
\* place when the capacity allows, else into a grown copy.
ReflectAppend(a, n, x, kind) ==
    IF n < Len(a)
    THEN [grown |-> FALSE, array |-> [a EXCEPT ![n + 1] = x], len |-> n + 1]
    ELSE [grown |-> TRUE,
          array |-> [k \in 1..GrowCap(Len(a)) |->
                       IF k <= n THEN a[k] ELSE IF k = n + 1 THEN x ELSE ZeroStruct(kind)],
          len   |-> n + 1]

\* ---------------------------------------------------------------- unmarshalInto
RootName == Pluralize(Jsonify(StructName))

\* RootError without the nil check of the value under the root key.
RootErrorNoNilCheck(root) ==
    IF root[RootName].k /= "array"
    THEN "expected slice under key '" \o RootName \o "'"
    ELSE "nil"

\* unmarshal.go:41-49: the models slice under the root key.
RootError(root) ==
    IF root[RootName].k \in {"absent", "null"}
    THEN "expected root document to include a '" \o RootName \o "' key but it didn't."
    ELSE IF root[RootName].k /= "array"
         THEN "expected slice under key '" \o RootName \o "'"
         ELSE "nil"

Outcome(st, msg, new, idx, e) == [st |-> st, msg |-> msg, isNew |-> new, obj |-> idx, e |-> e]

\* UnmarshalModel with a new struct made for every record, matched or not.
UnmarshalModelFresh(elems, m, kind) ==
    IF m.k /= "object"
    THEN {Outcome("err", "expected an array of objects under key '" \o RootName \o "'",
                  TRUE, 0, ZeroStruct(kind))}
    ELSE LET attributes == m.m
             v == attributes.id
         IN  IF v.k \notin {"absent", "null", "string"}
             THEN {Outcome("err", "id must be a string", TRUE, 0, ZeroStruct(kind))}
             ELSE LET idx == IF v.k = "string" THEN FindObject(elems, v.s, kind) ELSE 0
                  IN  {Outcome(r.st, r.msg, idx = 0, idx, r.e) :
                         r \in RangeAttributes(ZeroStruct(kind), kind, attributes)}

\* unmarshal.go:53-117, one model of the document against the working
\* elements: the element it is read into and how reading it ends.
UnmarshalModel(elems, m, kind) ==
    IF m.k /= "object"
    THEN {Outcome("err", "expected an array of objects under key '" \o RootName \o "'",
                  TRUE, 0, ZeroStruct(kind))}
    ELSE LET attributes == m.m
             v == attributes.id
         IN  IF v.k \notin {"absent", "null", "string"}
             THEN {Outcome("err", "id must be a string", TRUE, 0, ZeroStruct(kind))}
             ELSE LET idx   == IF v.k = "string" THEN FindObject(elems, v.s, kind) ELSE 0
                      start == IF idx = 0 THEN ZeroStruct(kind) ELSE elems[idx]
                  IN  {Outcome(r.st, r.msg, idx = 0, idx, r.e) :
                         r \in RangeAttributes(start, kind, attributes)}

\* ---------------------------------------------------------------- inputs
ValuesShapes == {"*[]struct", "nil", "struct", "*struct", "*[]int"}

InitIDs == {1, 2}

IdValue(kind, n) == IF kind = "string" THEN FormatInt(n) ELSE n

Element(kind, n) ==
    [ID |-> IdValue(kind, n), Title |-> <<"a">>, AuthorID |-> IdValue(kind, 1),
     TagsIDs |-> <<IdValue(kind, 1), IdValue(kind, 2)>>]

Slices(kind) ==
    {[array |-> [k \in 1..(Len(ids) + spare) |->
                   IF k <= Len(ids) THEN Element(kind, ids[k]) ELSE ZeroStruct(kind)],
      len   |-> Len(ids)] :
        ids \in UNION {[1..n -> InitIDs] : n \in 0..MaxDest}, spare \in {0, 1}}

Title == Str(<<"c">>)

TagsLink ==
    Obj(Links(Array(<<Scalar("string", <<"2">>), Scalar("string", <<"1">>)>>), NoLink, NoLink))

Object(id, title, bogus, links) == Model("object", Attributes(id, title, bogus, links))

\* The record objects documents are made of: without an id, with the id of an
\* element, with an id that is no canonical decimal, with to-many and to-one
\* links, and with each defect the code tells apart.
Models ==
    {Object(Absent, Title, Absent, Absent),
     Object(Absent, Absent, Absent, TagsLink),
     Object(Str(<<"1">>), Title, Absent, Absent),
     Object(Str(<<"1">>), Absent, Absent, TagsLink),
     Object(Str(<<"0", "1">>), Title, Absent, Absent),
     Object(Str(<<"2">>), Title, Absent,
            Obj(Links(Array(<<Scalar("string", <<"3">>)>>), One(<<"2">>), NoLink))),
     Object(Absent, Absent, Num, Absent),
     Object(Null, Absent, Num, Str(<<"c">>)),
     Object(Absent, Num, Absent, Absent),
     Object(Num, Title, Absent, Absent),
     Object(Str(<<"1">>), Absent, Absent,
            Obj(Links(Array(<<Scalar("string", <<"3">>), Scalar("number", <<>>)>>),
                      One(<<"x">>), One(<<"1">>)))),
     Model("number", Attributes(Absent, Absent, Absent, Absent))}

Root(k, a) == [articles |-> [k |-> k, a |-> a]]

Documents ==
    {Root(k, <<>>) : k \in {"absent", "null", "number"}}
    \cup {Root("array", a) : a \in UNION {[1..n -> Models] : n \in 0..MaxRecs}}

\* ---------------------------------------------------------------- the state machine
Init ==
    /\ values \in ValuesShapes
    /\ idKind \in IF values = "*[]struct" THEN {"string", "int"} ELSE {"string"}
    /\ sliceVal \in IF values = "*[]struct" THEN Slices(idKind)
                     ELSE {[array |-> <<>>, len |-> 0]}
    /\ ctx \in Documents
    /\ val = [shared |-> TRUE, array |-> <<>>, len |-> sliceVal.len]
    /\ isNew = TRUE
    /\ obj = 0
    /\ i = 0
    /\ err = "nil"
    /\ pc = "ready"
    /\ calls = 0
    /\ before = Destination
    /\ prevErr = "nil"

\* Unmarshal up to the loop of unmarshalInto (unmarshal.go:12-31, 39-49).
Unmarshal ==
    /\ pc \in {"ready", "done"}
    /\ calls < MaxCalls
    /\ calls' = calls + 1
    /\ before' = Destination
    /\ prevErr' = err
    /\ val' = [shared |-> TRUE, array |-> <<>>, len |-> sliceVal.len]
    /\ isNew' = TRUE
    /\ obj' = 0
    /\ IF values /= "*[]struct"
       THEN pc' = "panic" /\ i' = 0 /\ err' = "You must pass a pointer to a []struct to Unmarshal()"
       ELSE IF RootError(ctx) /= "nil"
            THEN pc' = "done" /\ i' = 0 /\ err' = RootError(ctx)
            ELSE pc' = "loop" /\ i' = 1 /\ err' = "nil"
    /\ UNCHANGED <<idKind, values, ctx, sliceVal>>

\* Store array a and length n as the working slice; it is the caller's array
\* too while the two are shared.
StoreWorking(a, n) ==
    IF val.shared
    THEN sliceVal' = [sliceVal EXCEPT !.array = a] /\ val' = [val EXCEPT !.len = n]
    ELSE sliceVal' = sliceVal /\ val' = [shared |-> FALSE, array |-> a, len |-> n]

\* ReturnErr with the pointee set to the working slice on an error too.
ReturnErrWithSet(a) ==
    /\ sliceVal' = [array |-> a, len |-> val.len]
    /\ val' = [shared |-> TRUE, array |-> <<>>, len |-> val.len]

\* An error leaves unmarshalInto and Unmarshal (unmarshal.go:32-34): what was
\* written through references into a shared array stays, the working slice is
\* dropped.
ReturnErr(a) ==
    /\ sliceVal' = IF val.shared THEN [sliceVal EXCEPT !.array = a] ELSE sliceVal
    /\ val' = [shared |-> TRUE, array |-> <<>>, len |-> sliceVal.len]

\* One iteration of the loop of unmarshalInto (unmarshal.go:52-122); an error
\* ends the call without Unmarshal's Set (unmarshal.go:32-34).
UnmarshalInto ==
    /\ pc = "loop"
    /\ i <= Len(ctx[RootName].a)
    /\ \E o \in UnmarshalModel(Working, ctx[RootName].a[i], idKind) :
         LET a == IF o.obj > 0 THEN [WorkArray EXCEPT ![o.obj] = o.e] ELSE WorkArray
             s == ReflectAppend(a, val.len, o.e, idKind)
         IN  /\ isNew' = o.isNew
             /\ obj' = o.obj
             /\ IF o.st = "ok"
                THEN /\ pc' = "loop" /\ i' = i + 1 /\ err' = "nil"
                     /\ IF ~o.isNew THEN StoreWorking(a, val.len)
                        ELSE IF s.grown
                             THEN sliceVal' = sliceVal
                                  /\ val' = [shared |-> FALSE, array |-> s.array, len |-> s.len]
                             ELSE StoreWorking(s.array, s.len)
                ELSE /\ pc' = IF o.st = "panic" THEN "panic" ELSE "done"
                     /\ i' = i /\ err' = o.msg
                     /\ ReturnErr(a)
    /\ UNCHANGED <<idKind, values, ctx, calls, before, prevErr>>

\* The loop is over: unmarshalInto returns nil and Unmarshal sets the pointee
\* (unmarshal.go:124, 35-36).
UnmarshalReturn ==
    /\ pc = "loop"
    /\ i > Len(ctx[RootName].a)
    /\ sliceVal' = [array |-> WorkArray, len |-> val.len]
    /\ val' = [shared |-> TRUE, array |-> <<>>, len |-> val.len]
    /\ pc' = "done"
    /\ err' = "nil"
    /\ UNCHANGED <<idKind, values, ctx, isNew, obj, i, calls, before, prevErr>>

Next == Unmarshal \/ UnmarshalInto \/ UnmarshalReturn

Spec == Init /\ [][Next]_vars

\* ---------------------------------------------------------------- vocabulary of the claims
Recs == ctx[RootName].a

Called == values = "*[]struct" /\ ctx[RootName].k = "array"

\* The loop is about to read record i.
AtRecord == Called /\ pc = "loop" /\ i <= Len(Recs)

\* Record i has just been read without an error.
ReadOk == AtRecord /\ pc' = "loop" /\ i' = i + 1

\* Reading record i has just ended the call with an error value.
ReadErr == AtRecord /\ pc' = "done"

Succeeded == Called /\ pc = "done" /\ err = "nil"

Has(v) == v.k /= "absent"

\* What the identifier string s is as a value of the identifier field.
ExpectedID(s) == IF idKind = "string" THEN s ELSE ParseInt(s).n

ExpectedIDs(a) == [k \in 1..Len(a) |-> ExpectedID(a[k].s)]

HasTags(m) == m.links.k = "object" /\ m.links.o.tags.k = "array"

HasAuthor(m) == m.links.k = "object" /\ m.links.o.author.k = "string"

\* No element of elems has the identifier of record object m.
Unmatched(elems, m) ==
    \/ m.id.k \in {"absent", "null"}
    \/ m.id.k = "string" /\ \A k \in 1..Len(elems) : IdFromObject(elems[k], idKind) /= m.id.s

FieldNotFound == "expected struct Article to have field Bogus"

\* ---------------------------------------------------------------- C1
\* C1: a record whose id equals the identifier of an existing element is read
\* into that element: the working sequence keeps its length, the element at
\* the matched index gets exactly the fields the record's keys name, its
\* other fields keep their values, and every other element is unchanged.
MergeByIdentifier ==
    [][(ReadOk /\ ~isNew') =>
        LET m == Recs[i].m
            old == Working[obj']
            new == Working'[obj']
        IN  /\ obj' \in 1..val.len
            /\ IdFromObject(old, idKind) = m.id.s
            /\ Len(Working') = Len(Working)
            /\ \A k \in 1..val.len : k /= obj' => Working'[k] = Working[k]
            /\ new.ID = old.ID
            /\ new.Title = IF Has(m.title) THEN m.title.s ELSE old.Title
            /\ new.TagsIDs = IF HasTags(m) THEN ExpectedIDs(m.links.o.tags.a) ELSE old.TagsIDs
            /\ new.AuthorID = IF HasAuthor(m) THEN ExpectedID(m.links.o.author.s)
                              ELSE old.AuthorID]_vars

\* A record with an id and a title has been merged into one of two elements
\* and the element kept its links.
MergeByIdentifierWitness ==
    /\ Called /\ pc = "loop" /\ i > 1 /\ ~isNew /\ val.len >= 2
    /\ Has(Recs[i - 1].m.title) /\ ~HasTags(Recs[i - 1].m)
    /\ Working[obj].Title = <<"c">>
    /\ Len(Working[obj].TagsIDs) = 2

\* ---------------------------------------------------------------- C2
\* C2 as claimed: a second successful call with the same document leaves the
\* destination as the first call left it.
UpsertIdempotence ==
    (Succeeded /\ calls >= 2 /\ prevErr = "nil") => Destination = before

\* The identifier field renders the identifier string s back unchanged.
RendersBack(s) ==
    idKind = "string" \/ (ParseInt(s).ok /\ FormatInt(ParseInt(s).n) = s)

NeverMatched(m) == m.id.k /= "string" \/ ~RendersBack(m.id.s)

\* C2 amended: a second successful call with the same document keeps every
\* element of the first call's result in place and appends one element for
\* each record that has no id or whose id the identifier field does not
\* render back; without such a record the destination is the same.
UpsertRepeated ==
    (Succeeded /\ calls >= 2 /\ prevErr = "nil") =>
        /\ Len(Destination) =
             Len(before) + Cardinality({k \in 1..Len(Recs) : NeverMatched(Recs[k].m)})
        /\ SubSeq(Destination, 1, Len(before)) = before

\* The same document was unmarshalled twice; it holds a record with an id,
\* merged again, and a record without one, appended again.
UpsertRepeatedWitness ==
    /\ Succeeded /\ calls >= 2 /\ prevErr = "nil"
    /\ \E k \in 1..Len(Recs) : ~NeverMatched(Recs[k].m)
    /\ \E k \in 1..Len(Recs) : NeverMatched(Recs[k].m)
    /\ Len(Destination) = Len(before) + 1

BuiltFrom(m) ==
    [ID       |-> ZeroID(idKind),
     Title    |-> IF Has(m.title) THEN m.title.s ELSE <<>>,
     AuthorID |-> IF HasAuthor(m) THEN ExpectedID(m.links.o.author.s) ELSE ZeroID(idKind),
     TagsIDs  |-> IF HasTags(m) THEN ExpectedIDs(m.links.o.tags.a) ELSE <<>>]

NoIds == \A k \in 1..Len(Recs) : Recs[k].k = "object" /\ ~Has(Recs[k].m.id)

\* C4: after a successful call with a document of n records without an id,
\* the elements the destination had are unchanged in their places and n new
\* elements follow them, the k-th built from the k-th record.
NewRecordAppend ==
    (Succeeded /\ NoIds) =>
        /\ Len(Destination) = Len(before) + Len(Recs)
        /\ SubSeq(Destination, 1, Len(before)) = before
        /\ \A k \in 1..Len(Recs) : Destination[Len(before) + k] = BuiltFrom(Recs[k].m)

\* Two different records without an id were appended behind an element.
NewRecordAppendWitness ==
    /\ Succeeded /\ NoIds /\ Len(Recs) = 2 /\ Recs[1] /= Recs[2]
    /\ Len(before) >= 1
    /\ Len(Destination) = Len(before) + 2

\* ---------------------------------------------------------------- C5
\* C5: a document without a value under "articles", or with one that is no
\* sequence, makes the call return an error naming the key and leaves the
\* destination as it was.
MissingRootKey ==
    (values = "*[]struct" /\ calls >= 1 /\ ctx[RootName].k /= "array") =>
        /\ pc = "done"
        /\ err = IF ctx[RootName].k \in {"absent", "null"}
                 THEN "expected root document to include a 'articles' key but it didn't."
                 ELSE "expected slice under key 'articles'"
        /\ Destination = before

\* A call on a destination with elements found null under the root key.
MissingRootKeyWitness ==
    /\ values = "*[]struct" /\ pc = "done" /\ ctx[RootName].k = "null"
    /\ err /= "nil" /\ Len(Destination) >= 1

\* ---------------------------------------------------------------- C6
\* C6: a decoded value that cannot be assigned to the field it is for makes
\* the call return an error; the process is aborted only for a `values`
\* argument that is no pointer to a slice of structs.
TypeMismatchIsAnError == pc = "panic" => values /= "*[]struct"

\* ---------------------------------------------------------------- C7
\* C7: a record read without an error whose links hold a sequence of k
\* identifier strings under "tags" leaves TagsIDs of the element it was read
\* into with exactly those k identifiers, in order, whatever it held.
ToManyReplaced ==
    [][(ReadOk /\ Recs[i].k = "object" /\ HasTags(Recs[i].m)) =>
        LET e == IF isNew' THEN Working'[val'.len] ELSE Working'[obj']
        IN  e.TagsIDs = ExpectedIDs(Recs[i].m.links.o.tags.a)]_vars

\* An element that held two tags was merged with a record naming two others.
ToManyReplacedWitness ==
    /\ Called /\ pc = "loop" /\ i > 1 /\ ~isNew
    /\ HasTags(Recs[i - 1].m) /\ ~Has(Recs[i - 1].m.title)
    /\ Working[obj].Title = <<"a">>
    /\ Working[obj].TagsIDs = ExpectedIDs(Recs[i - 1].m.links.o.tags.a)
    /\ Working[obj].TagsIDs /= Element(idKind, 1).TagsIDs

\* ---------------------------------------------------------------- C8
HasUnknownKey(m) == Has(m.bogus)

\* C8 as claimed: a record with a key that names no field makes the call
\* return the field-not-found error, and no later record is read.
UnknownFieldRejected ==
    [][(AtRecord /\ Recs[i].k = "object" /\ HasUnknownKey(Recs[i].m)) =>
        pc' = "done" /\ err' = FieldNotFound /\ i' = i]_vars

\* The unknown key is the only defect of m.
OnlyUnknownKey(m) ==
    /\ HasUnknownKey(m)
    /\ m.id.k = "absent" \/ (m.id.k = "string" /\ (idKind = "string" \/ ParseInt(m.id.s).ok))
    /\ m.title.k \in {"absent", "string"}
    /\ m.links.k = "absent"

\* C8 amended: a record with a key that names no field ends the call without
\* success and no later record is read; the call returns the field-not-found
\* error when that key is the record's only defect, and otherwise that error
\* or the outcome of another defective key of the record that the range over
\* its keys reached first.
UnknownFieldStops ==
    [][(AtRecord /\ Recs[i].k = "object" /\ HasUnknownKey(Recs[i].m)) =>
        /\ pc' \in {"done", "panic"}
        /\ err' /= "nil"
        /\ i' = i
        /\ Len(Destination') = Len(before)
        /\ OnlyUnknownKey(Recs[i].m) => (pc' = "done" /\ err' = FieldNotFound)]_vars

\* The call returned field-not-found at a record that is not the last.
UnknownFieldStopsWitness ==
    /\ Called /\ pc = "done" /\ err = FieldNotFound
    /\ i >= 1 /\ i < Len(Recs)
    /\ OnlyUnknownKey(Recs[i].m)

\* ---------------------------------------------------------------- C9
\* C9: a record read without an error that has no id, or an id no element
\* has, is appended and changes no element; one that is merged has the
\* identifier of the element it is merged into; a record that matches no
\* element changes none when reading it fails either.
AppendOrMerge ==
    [][/\ (ReadOk /\ Recs[i].k = "object" /\ Unmatched(Working, Recs[i].m)) =>
            /\ isNew'
            /\ Len(Working') = val.len + 1
            /\ SubSeq(Working', 1, val.len) = Working
       /\ (ReadOk /\ ~isNew') =>
            /\ Recs[i].m.id.k = "string"
            /\ IdFromObject(Working[obj'], idKind) = Recs[i].m.id.s
       /\ (AtRecord /\ pc' /= "loop" /\ Recs[i].k = "object" /\ Unmatched(Working, Recs[i].m)) =>
            Destination' = Destination]_vars

\* A record whose id no element had was appended behind two elements.
AppendOrMergeWitness ==
    /\ Called /\ pc = "loop" /\ i > 1 /\ isNew /\ val.len >= 3
    /\ Recs[i - 1].m.id.k = "string"
    /\ \A k \in 1..(val.len - 1) : IdFromObject(Working[k], idKind) /= Recs[i - 1].m.id.s

\* ---------------------------------------------------------------- C10
DistinctIDs(elems) ==
    \A j, k \in 1..Len(elems) : j /= k => elems[j].ID /= elems[k].ID

AllIds == \A k \in 1..Len(Recs) : Recs[k].k = "object" /\ Recs[k].m.id.k = "string"

\* C10: a successful call with a document whose records all carry a string
\* id, on a destination of pairwise distinct identifiers, leaves the
\* identifiers pairwise distinct, for string and for int identifier fields.
IdentifiersStayDistinct ==
    (Succeeded /\ AllIds /\ DistinctIDs(before)) => DistinctIDs(Destination)

====
